---- MODULE Spec2Model ----
(***************************************************************************)
(* The Ruler widget of src/main.ts.  The file holds two copies of the      *)
(* class: the first (lines 16-329) hardcodes 60 pixels per inch and has a  *)
(* separate drawing branch for unit "in"; the second (lines 381-625)       *)
(* measures pixels per millimetre with a probe element and has one         *)
(* drawing loop.  The variable copy says which class was instantiated.     *)
(*                                                                         *)
(* Numbers are JavaScript doubles in the source.  Here every coordinate,   *)
(* extent and scale factor is a fixed-point integer counting 1/Den of a    *)
(* pixel, with Den chosen so that 60/25.4, x*25.4 and halves are exact.    *)
(***************************************************************************)
EXTENDS Integers, Sequences, FiniteSets, TLC

\* 25.4 = 254/10 and 60/25.4 = 300/127; the factor 2 makes x.5 exact.
Den == 2 * 5 * 127

\* Bounds of the model.
MaxExtent == 7
HangPrefix == 2

Copies == {1, 2}
Units == {"px", "mm", "cm", "in", "pt"}
Orientations == {"horizontal", "vertical"}

\* <<tickMajor, tickMinor, tickMicro>> in pixels: one all-positive triple,
\* and one triple per disabled (zero or negative) category.
TickTriples == {<<6, 3, 2>>, <<0, 3, 2>>, <<6, -3, 2>>, <<6, 3, 0>>}

\* <<startX, startY>> in pixels.
StartPairs == {<<0, 0>>, <<1, 0>>, <<0, 1>>}

\* The tick options tried: every start with the all-positive triple, every
\* triple with the default start.
TickOptions ==
  {t \in [ticks : TickTriples, start : StartPairs]
   : t.ticks = <<6, 3, 2>> \/ t.start = <<0, 0>>}

Thicknesses == {2, 3}

\* The container's extent along the ruler's axis (clientWidth of a
\* horizontal ruler, clientHeight of a vertical one; the other is never
\* read); 0 is a container that is not laid out (the `||` fallback of
\* refresh takes it like a missing parent).
Extents == {0, 4, MaxExtent}

\* tempDiv.offsetWidth of the 1mm probe: 0 when the probe is not rendered.
ProbeWidths == {0, 4}

\* Pointer coordinates relative to the container: -1, 0, 2.5 pixels.
MouseCoords == {-Den, 0, (5 * Den) \div 2}

OptionSets ==
  {o \in [unit : Units, ticks : TickTriples, showLabel : BOOLEAN,
          start : StartPairs, showMousePosition : BOOLEAN,
          orientation : Orientations, rulerThickness : Thicknesses]
   : [ticks |-> o.ticks, start |-> o.start] \in TickOptions}

VARIABLES copy, options, clientExtent, offsetWidth,
          phase, size, canvas, unitDiv, mouseX, mouseY,
          strokeStyle, tickStyle, ticks, labels, cursor, pointer, lastOp

vars == <<copy, options, clientExtent, offsetWidth,
          phase, size, canvas, unitDiv, mouseX, mouseY,
          strokeStyle, tickStyle, ticks, labels, cursor, pointer, lastOp>>

tickMajor == options.ticks[1]
tickMinor == options.ticks[2]
tickMicro == options.ticks[3]
startX == options.start[1]
startY == options.start[2]

NoCursor == [drawn |-> FALSE]

----------------------------------------------------------------------------
\* Number formatting

\* Mutant of ToFixed0: the fraction is cut off, as by Math.floor.
ToFixed0Floor(num, den) ==
  IF den = 0
    THEN [kind |-> IF num = 0 THEN "NaN" ELSE "Infinity", int |-> 0, frac |-> 0]
    ELSE [kind |-> "num",
          int |-> IF num >= 0 THEN num \div den ELSE 0 - ((0 - num) \div den),
          frac |-> 0]

\* x.toFixed(0) for x = num/den: the nearest integer, halves away from zero;
\* a zero divisor gives the strings "Infinity" or "NaN".
ToFixed0(num, den) ==
  IF den = 0
    THEN [kind |-> IF num = 0 THEN "NaN" ELSE "Infinity", int |-> 0, frac |-> 0]
    ELSE [kind |-> "num",
          int |-> IF num >= 0 THEN (2 * num + den) \div (2 * den)
                  ELSE 0 - ((2 * (0 - num) + den) \div (2 * den)),
          frac |-> 0]

\* String(i) for the fixed-point i: integer part and fractional part.
StringOf(i) ==
  [kind |-> "num",
   int |-> IF i >= 0 THEN i \div Den ELSE 0 - ((0 - i) \div Den),
   frac |-> IF i >= 0 THEN i % Den ELSE (0 - i) % Den]

\* i % tick === 0 for a fixed-point i and a tick interval in pixels
\* (i % 0 is NaN; the sign of the divisor does not matter).
Divides(tick, i) ==
  /\ tick # 0
  /\ i % ((IF tick < 0 THEN 0 - tick ELSE tick) * Den) = 0

----------------------------------------------------------------------------
\* Scale factor

getPixelsPerUnit1 ==
  CASE options.unit = "px" -> Den
    [] options.unit = "mm" -> (60 * Den * 10) \div 254
    [] options.unit = "cm" -> ((60 * Den * 10) \div 254) * 10
    [] options.unit = "in" -> 60 * Den
    [] OTHER -> Den

calcPixelsPerMM == offsetWidth

\* The configurations whose scale factor reads the probe.
ProbeRead == copy = 2 /\ options.unit \in {"mm", "cm", "in"}

getPixelsPerUnit2 ==
  CASE options.unit = "px" -> Den
    [] options.unit = "mm" -> calcPixelsPerMM * Den
    [] options.unit = "cm" -> calcPixelsPerMM * Den * 10
    [] options.unit = "in" -> (calcPixelsPerMM * Den * 254) \div 10
    [] OTHER -> Den

getPixelsPerUnit == IF copy = 1 THEN getPixelsPerUnit1 ELSE getPixelsPerUnit2

----------------------------------------------------------------------------
\* Drawing.  A tick is a line segment of the path, visible once the path is
\* stroked; a label is a fillText call, visible at once.

tickHeights == <<15, 10, 5>>

Text(number, suffix) ==
  [kind |-> number.kind, int |-> number.int, frac |-> number.frac,
   suffix |-> suffix]

\* for (let i = start; i < length; i += step): the values of i for which the
\* body runs, at most fuel of them.
RECURSIVE LoopFrom(_, _, _, _)
LoopFrom(i, length, step, fuel) ==
  IF ~(i < length) \/ fuel = 0
    THEN <<>>
    ELSE <<i>> \o LoopFrom(i + step, length, step, fuel - 1)

\* The loop never ends: its condition holds and i never grows.
Hangs(start, length, step) == start < length /\ step <= 0

\* The values of i the loop body sees; of a loop that never ends, the first
\* HangPrefix of them.
Visited(start, length, step) ==
  LoopFrom(start, length, step,
           IF ~(start < length) THEN 0
           ELSE IF step <= 0 THEN HangPrefix
           ELSE (length - start) \div step + 1)

Range(seq) == {seq[k] : k \in 1..Len(seq)}

\* tickPositions.findIndex((tick) => i % tick === 0 && tick > 0), counted
\* from 1, 0 for "not found".
TickTypeIndex(i, major, minor, micro) ==
  CASE Divides(major, i) /\ major > 0 -> 1
    [] Divides(minor, i) /\ minor > 0 -> 2
    [] Divides(micro, i) /\ micro > 0 -> 3
    [] OTHER -> 0

TickLabel(orientation, text, i, tickHeight) ==
  IF orientation = "horizontal"
    THEN [text |-> text, x |-> i + 2 * Den, y |-> (tickHeight + 10) * Den]
    ELSE [text |-> text, x |-> (tickHeight + 2) * Den, y |-> i + 10 * Den]

\* The single loop of the second class, and of the first class for every
\* unit but "in".
DrawTicksByUnit(orientation, length, major, minor, micro, start, showLabel, step) ==
  LET seen == Range(Visited(start, length, step))
      hit == {i \in seen : TickTypeIndex(i, major, minor, micro) # 0}
      hung == Hangs(start, length, step)
  IN [hung |-> hung,
      ticks |-> IF hung THEN {}
                ELSE {[pos |-> i,
                       len |-> tickHeights[TickTypeIndex(i, major, minor, micro)]]
                      : i \in hit},
      labels |-> {TickLabel(orientation, Text(StringOf(i), ""), i, tickHeights[1])
                  : i \in {j \in hit : showLabel
                                       /\ TickTypeIndex(j, major, minor, micro) = 1}}]

\* The three loops of the first class for unit "in".
DrawTicksInch(orientation, length, major, minor, micro, start) ==
  LET seenMajor == Range(Visited(start, length, major * Den))
      seenMinor == {i \in Range(Visited(start, length, minor * Den))
                    : ~Divides(major, i)}
      seenMicro == {i \in Range(Visited(start, length, micro * Den))
                    : ~Divides(major, i) /\ ~Divides(minor, i)}
      hungMajor == Hangs(start, length, major * Den)
      hungMinor == Hangs(start, length, minor * Den)
      hungMicro == Hangs(start, length, micro * Den)
      inchLabels == {TickLabel(orientation, Text(ToFixed0(i, 60 * Den), "\""),
                               i, tickHeights[1])
                     : i \in seenMajor}
      majorTicks == {[pos |-> i,
                      len |-> IF orientation = "horizontal"
                              THEN tickHeights[1] ELSE tickHeights[2]]
                     : i \in seenMajor}
      minorTicks == {[pos |-> i, len |-> tickHeights[2]] : i \in seenMinor}
      microTicks == {[pos |-> i, len |-> tickHeights[3]] : i \in seenMicro}
  IN IF hungMajor \/ hungMinor \/ hungMicro
       THEN [hung |-> TRUE, ticks |-> {}, labels |-> inchLabels]
       ELSE [hung |-> FALSE,
             ticks |-> majorTicks \cup minorTicks \cup microTicks,
             labels |-> inchLabels]

\* drawTicks; length and start in pixels, step the scale factor unitDiv.
drawTicks(orientation, length, major, minor, micro, start, showLabel, step) ==
  IF copy = 1 /\ options.unit = "in"
    THEN DrawTicksInch(orientation, length * Den, major, minor, micro, start * Den)
    ELSE DrawTicksByUnit(orientation, length * Den, major, minor, micro,
                         start * Den, showLabel, step)

\* The early return of drawMousePosition.
CursorHidden(mx, my) ==
  IF copy = 1 THEN mx <= 0 \/ my <= 0 ELSE mx < 0 \/ my < 0

drawMousePosition(sz, step, mx, my) ==
  IF CursorHidden(mx, my) THEN NoCursor
  ELSE IF options.orientation = "horizontal"
    THEN [drawn |-> TRUE, axis |-> "X", pos |-> mx, span |-> sz.height,
          text |-> Text(ToFixed0(mx, step), options.unit),
          x |-> mx + 5 * Den, y |-> 15 * Den]
    ELSE [drawn |-> TRUE, axis |-> "Y", pos |-> my, span |-> sz.width,
          text |-> Text(ToFixed0(my, step), options.unit),
          x |-> 5 * Den, y |-> my + 10 * Den]

\* renderRuler on the given render state: what is on the surface afterwards,
\* or hung when drawTicks never returns (the surface was cleared and the
\* path never stroked).
renderRuler(sz, step, mx, my, style) ==
  LET t == IF options.orientation = "horizontal"
             THEN drawTicks("horizontal", sz.width, tickMajor, tickMinor,
                            tickMicro, startX, options.showLabel, step)
             ELSE drawTicks("vertical", sz.height, tickMajor, tickMinor,
                            tickMicro, startY, options.showLabel, step)
      c == IF options.showMousePosition
             THEN drawMousePosition(sz, step, mx, my) ELSE NoCursor
  IN IF t.hung
       THEN [hung |-> TRUE, ticks |-> {}, labels |-> t.labels,
             cursor |-> NoCursor, tickStyle |-> style, strokeStyle |-> style]
       ELSE [hung |-> FALSE, ticks |-> t.ticks, labels |-> t.labels,
             cursor |-> c, tickStyle |-> style,
             strokeStyle |-> IF c.drawn THEN "rgba(0, 0, 0, 0.3)" ELSE style]

----------------------------------------------------------------------------
\* State machine

DefaultStyle == "#000000"

\* Assigning canvas.width or canvas.height resets the drawing context.
Drawn(r) ==
  /\ ticks' = r.ticks
  /\ labels' = r.labels
  /\ cursor' = r.cursor
  /\ tickStyle' = r.tickStyle
  /\ strokeStyle' = r.strokeStyle
  /\ phase' = IF r.hung THEN "hung" ELSE "ready"

\* Before `new Ruler(container, options)`: the field initializers, the
\* options the caller passes and the container as it is laid out.
Init ==
  /\ copy \in Copies
  /\ options \in OptionSets
  /\ clientExtent \in Extents
  /\ offsetWidth \in (IF ProbeRead THEN ProbeWidths ELSE {4})
  /\ phase = "new"
  /\ size = [width |-> 0, height |-> 0]
  /\ canvas = [width |-> 0, height |-> 0]
  /\ unitDiv = Den
  /\ mouseX = 0
  /\ mouseY = 0
  /\ strokeStyle = DefaultStyle
  /\ tickStyle = DefaultStyle
  /\ ticks = {}
  /\ labels = {}
  /\ cursor = NoCursor
  /\ pointer = "none"
  /\ lastOp = "none"

ConstructSize ==
  IF options.orientation = "horizontal"
    THEN [width |-> clientExtent, height |-> options.rulerThickness]
    ELSE [width |-> options.rulerThickness, height |-> clientExtent]

\* constructor: size the surface, initCanvas (scale factor, first render).
Construct ==
  /\ phase = "new"
  /\ size' = ConstructSize
  /\ canvas' = ConstructSize
  /\ unitDiv' = getPixelsPerUnit
  /\ Drawn(renderRuler(ConstructSize, getPixelsPerUnit, mouseX, mouseY, DefaultStyle))
  /\ lastOp' = "construct"
  /\ UNCHANGED <<copy, options, clientExtent, offsetWidth, mouseX, mouseY, pointer>>

\* Mutant of RefreshExtent: `+` for `||`.
RefreshExtentSum(client, known) == client + known

\* this.canvas.parentElement?.clientWidth || this.size.width
RefreshExtent(client, known) == IF client # 0 THEN client ELSE known

RefreshSize ==
  IF options.orientation = "horizontal"
    THEN [size EXCEPT !.width = RefreshExtent(clientExtent, size.width)]
    ELSE [size EXCEPT !.height = RefreshExtent(clientExtent, size.height)]

\* Mutant of RefreshCanvas: the vertical branch is a copy of the horizontal.
RefreshCanvasOneBranch ==
  [width |-> RefreshExtent(clientExtent,
                           IF options.orientation = "horizontal"
                             THEN size.width ELSE size.height),
   height |-> options.rulerThickness]

RefreshCanvas ==
  IF options.orientation = "horizontal"
    THEN [width |-> RefreshExtent(clientExtent, size.width),
          height |-> options.rulerThickness]
    ELSE [width |-> options.rulerThickness,
          height |-> RefreshExtent(clientExtent, size.height)]

refresh ==
  /\ phase = "ready"
  /\ size' = RefreshSize
  /\ canvas' = RefreshCanvas
  /\ unitDiv' = getPixelsPerUnit
  /\ Drawn(renderRuler(RefreshSize, getPixelsPerUnit, mouseX, mouseY, DefaultStyle))
  /\ lastOp' = "refresh"
  /\ UNCHANGED <<copy, options, clientExtent, offsetWidth, mouseX, mouseY, pointer>>

\* handleMouseMove with event.clientX - rect.left = x, event.clientY - rect.top = y
handleMouseMove(x, y) ==
  /\ phase = "ready"
  /\ mouseX' = x
  /\ mouseY' = y
  /\ IF options.showMousePosition
       THEN Drawn(renderRuler(size, unitDiv, x, y, strokeStyle))
       ELSE UNCHANGED <<ticks, labels, cursor, tickStyle, strokeStyle, phase>>
  /\ pointer' = "inside"
  /\ lastOp' = "move"
  /\ UNCHANGED <<copy, options, clientExtent, offsetWidth, size, canvas, unitDiv>>

\* Mutant of LeaveCoord: the coordinates are reset to 0.
LeaveCoordZero == 0 * Den

\* this.mouseX = -1; this.mouseY = -1
LeaveCoord == 0 - Den

handleMouseLeave ==
  /\ phase = "ready"
  /\ mouseX' = LeaveCoord
  /\ mouseY' = LeaveCoord
  /\ Drawn(renderRuler(size, unitDiv, LeaveCoord, LeaveCoord, strokeStyle))
  /\ pointer' = "left"
  /\ lastOp' = "leave"
  /\ UNCHANGED <<copy, options, clientExtent, offsetWidth, size, canvas, unitDiv>>

\* The environment: the container is laid out anew.
Resize(e) ==
  /\ phase = "ready"
  /\ e # clientExtent
  /\ clientExtent' = e
  /\ lastOp' = "layout"
  /\ UNCHANGED <<copy, options, offsetWidth, phase, size, canvas, unitDiv, mouseX,
                 mouseY, strokeStyle, tickStyle, ticks, labels, cursor, pointer>>

\* The environment: the probe element renders at another width.
ProbeChange(w) ==
  /\ phase = "ready"
  /\ ProbeRead
  /\ w # offsetWidth
  /\ offsetWidth' = w
  /\ lastOp' = "layout"
  /\ UNCHANGED <<copy, options, clientExtent, phase, size, canvas,
                 unitDiv, mouseX, mouseY, strokeStyle, tickStyle, ticks, labels,
                 cursor, pointer>>

Next ==
  \/ Construct
  \/ refresh
  \/ \E x \in MouseCoords, y \in MouseCoords : handleMouseMove(x, y)
  \/ handleMouseLeave
  \/ \E e \in Extents : Resize(e)
  \/ \E w \in ProbeWidths : ProbeChange(w)

Spec == Init /\ [][Next]_vars

----------------------------------------------------------------------------
\* Properties

horizontal == options.orientation = "horizontal"
length == IF horizontal THEN size.width ELSE size.height
start == IF horizontal THEN startX ELSE startY
mouseAlong == IF horizontal THEN mouseX ELSE mouseY

\* The tick length the three intervals ask for at pixel i, 0 for none.
WantedLength(i) ==
  CASE tickMajor > 0 /\ i % tickMajor = 0 -> 15
    [] tickMinor > 0 /\ i % tickMinor = 0 -> 10
    [] tickMicro > 0 /\ i % tickMicro = 0 -> 5
    [] OTHER -> 0

TicksAt(i) == {t \in ticks : t.pos = i * Den}

\* C1: with all three intervals positive, every pixel position from the
\* start offset up to the length that an interval divides carries exactly
\* one tick, of the length of the highest-priority interval dividing it.
C1_OneTickPerMultiple ==
  (phase = "ready" /\ tickMajor > 0 /\ tickMinor > 0 /\ tickMicro > 0)
    => \A i \in start..(length - 1) :
         WantedLength(i) # 0
           => TicksAt(i) = {[pos |-> i * Den, len |-> WantedLength(i)]}

\* C2: no tick is drawn at a position that no interval divides, and no tick
\* of a category whose interval is <= 0 is drawn anywhere.
C2_NoStrayTick ==
  \A t \in ticks :
    /\ \E d \in {tickMajor, tickMinor, tickMicro} : d > 0 /\ t.pos % (d * Den) = 0
    /\ t.len = 15 => tickMajor > 0
    /\ t.len = 10 => tickMinor > 0
    /\ t.len = 5 => tickMicro > 0

\* C3: once the pointer has left, and until it moves in again, no render
\* shows the cursor guide line or its label.
C3_NoCursorAfterLeave == pointer = "left" => ~cursor.drawn

\* A refresh that follows a pointer-leave, on a ruler that shows the cursor
\* position and has drawn its ticks.
C3_Witness ==
  /\ pointer = "left"
  /\ lastOp = "refresh"
  /\ options.showMousePosition
  /\ phase = "ready"
  /\ ticks # {}

\* C4: from construction on, the cross-axis dimension of the surface (of the
\* canvas and of the size record) is the configured thickness.
C4_CrossAxisIsThickness ==
  phase # "new"
    => IF horizontal
         THEN canvas.height = options.rulerThickness
              /\ size.height = options.rulerThickness
         ELSE canvas.width = options.rulerThickness
              /\ size.width = options.rulerThickness

\* A vertical ruler refreshed after its container grew.
C4_Witness ==
  /\ lastOp = "refresh"
  /\ ~horizontal
  /\ options.rulerThickness = 3
  /\ canvas = [width |-> 3, height |-> 4]
  /\ pointer = "left"

LabelPos(l) == IF horizontal THEN l.x - 2 * Den ELSE l.y - 10 * Den

\* C5: a label is drawn only when showLabel is set, only at a multiple of
\* the major interval, and its text is that position as an integer with no
\* fraction and no suffix.
C5_LabelIsMajorInteger ==
  \A l \in labels :
    /\ options.showLabel
    /\ tickMajor > 0
    /\ LabelPos(l) % (tickMajor * Den) = 0
    /\ l.text.kind = "num"
    /\ l.text.frac = 0
    /\ l.text.suffix = ""
    /\ l.text.int * Den = LabelPos(l)

\* C6: construction and every later render return.
C6_RenderReturns == phase # "hung"

\* C7: the scale factor is positive.
C7_ScalePositive == unitDiv > 0

\* C8: with unit px the scale factor is 1; a cursor label shows the pointer
\* coordinate along the axis divided by the scale factor, rounded to the
\* nearest integer (a half rounds up), then the unit name.  With a zero
\* scale factor the quotient is not a number and the label says so.
C8_CursorLabelRounds ==
  /\ (phase # "new" /\ options.unit = "px") => unitDiv = Den
  /\ cursor.drawn =>
       /\ cursor.text.suffix = options.unit
       /\ cursor.pos = mouseAlong
       /\ unitDiv > 0 =>
            /\ cursor.text.kind = "num"
            /\ cursor.text.frac = 0
            /\ 2 * cursor.text.int * unitDiv - unitDiv <= 2 * mouseAlong
            /\ 2 * mouseAlong < 2 * cursor.text.int * unitDiv + unitDiv
       /\ unitDiv <= 0 => cursor.text.kind \in {"Infinity", "NaN"}

\* The pointer moved to 2.5 on a horizontal px ruler: the label reads 3px.
C8_Witness ==
  /\ lastOp = "move"
  /\ horizontal
  /\ options.unit = "px"
  /\ mouseX = (5 * Den) \div 2
  /\ cursor.drawn
  /\ cursor.text.int = 3
  /\ cursor.text.suffix = "px"

\* C9: a refresh returns, with the length along the axis set to the
\* container's extent, or left alone when the container has none; the
\* cross-axis size and the cursor coordinates are as before.
C9_RefreshRemeasures ==
  [][lastOp' = "refresh" =>
       /\ phase' = "ready"
       /\ IF horizontal
            THEN /\ size'.width = IF clientExtent # 0 THEN clientExtent ELSE size.width
                 /\ size'.height = size.height
            ELSE /\ size'.height = IF clientExtent # 0 THEN clientExtent ELSE size.height
                 /\ size'.width = size.width
       /\ mouseX' = mouseX
       /\ mouseY' = mouseY]_vars

\* C10: right after a refresh, with the container and the cursor as they
\* were, a second refresh leaves the render state and the drawing as they
\* are.
C10_RefreshIdempotent ==
  (lastOp = "refresh" /\ phase = "ready") =>
    LET r == renderRuler(RefreshSize, getPixelsPerUnit, mouseX, mouseY, DefaultStyle)
    IN /\ RefreshSize = size
       /\ RefreshCanvas = canvas
       /\ getPixelsPerUnit = unitDiv
       /\ ~r.hung
       /\ r.ticks = ticks
       /\ r.labels = labels
       /\ r.cursor = cursor
       /\ r.tickStyle = tickStyle
       /\ r.strokeStyle = strokeStyle

\* A refresh that took a new extent from the container and drew ticks,
\* labels and the cursor.
C10_Witness ==
  /\ lastOp = "refresh"
  /\ phase = "ready"
  /\ clientExtent = 4
  /\ length = 4
  /\ ticks # {}
  /\ labels # {}
  /\ cursor.drawn

\* C11: a render that returned shows the cursor guide line and label exactly
\* when showMousePosition is set and the tracked coordinate along the
\* ruler's own axis is >= 0, whatever the cross-axis coordinate is and
\* whether or not the pointer ever moved.
C11_CursorIffAlongAxisValid ==
  phase = "ready" =>
    (cursor.drawn <=> (options.showMousePosition /\ mouseAlong >= 0))

====
